---- MODULE Spec2Model ----
(***************************************************************************)
(* Truck Route Optimizer: the Clarke-Wright savings construction, the      *)
(* 2-opt pass and the result ranking of clarkeWright(depot, customers,     *)
(* capacity), and the stops CSV export / import pair.                      *)
(*                                                                         *)
(* Geometry.  The depot and the stops lie on the equator (lat = 0) at      *)
(* whole multiples of one step of longitude, as the stops of the           *)
(* program's self-test do.  For two such points the haversine formula is   *)
(* the arc R * |dLon|, so haversineKm is |a.lng - b.lng| in units of one   *)
(* step of arc.  The tolerance 1e-9 km of the 2-opt test is far below one  *)
(* unit, so after + 1e-9 < before is after < before on these values.       *)
(***************************************************************************)
EXTENDS Integers, Sequences, FiniteSets, TLC

\* ---------------------------------------------------------------- bounds
MaxStops    == 4
MaxWest     == 1
MaxEast     == 1
MaxDemand   == 2
MaxCapacity == 3
CsvMaxStops   == 2
CsvMaxCoord   == 0
CsvMaxDemand  == 1

VARIABLES
    depot,      \* Depot of the solve
    customers,  \* the input stop list, in input order
    capacity,   \* the capacity scalar
    pc,         \* position inside clarkeWright
    routes,     \* working routes: sequence of [customers, load]
    savings,    \* the sorted Saving list
    sIdx,       \* index of the saving the merge loop visits next
    rIdx,       \* index of the working route routes.map visits next
    best,       \* twoOpt: current best sequence
    improved,   \* twoOpt: flag of the current pass
    ti,         \* twoOpt: loop index i (0-based, as in the code)
    tk,         \* twoOpt: loop index k (0-based, as in the code)
    results,    \* RouteResult list built by routes.map, then sorted
    csvPc,      \* position of the CSV export / import round
    csvStops,   \* stops state of the App
    csvData,    \* the rows exportCSV handed to toCSV
    csvText     \* text produced by exportCSV

solveVars == <<depot, customers, capacity, pc, routes, savings, sIdx, rIdx,
               best, improved, ti, tk, results>>
csvVars   == <<csvPc, csvStops, csvData, csvText>>
vars      == <<solveVars, csvVars>>

\* ------------------------------------------------------------- sequences
Abs(x) == IF x < 0 THEN -x ELSE x

Reverse(s) == [p \in 1..Len(s) |-> s[Len(s) + 1 - p]]

\* s.slice(from, to) with 0-based from (inclusive) and to (exclusive)
Slice(s, from, to) == [p \in 1..(to - from) |-> s[from + p]]

RECURSIVE SumSeq(_)
SumSeq(s) == IF s = <<>> THEN 0 ELSE s[1] + SumSeq(Tail(s))

\* ----------------------------------------------------------------- types
Lngs     == (0 - MaxWest)..MaxEast
Demands  == 0..MaxDemand
Capacities == 1..MaxCapacity

Stop(i, x, q) == [id |-> i, lat |-> 0, lng |-> x, demand |-> q]

Depot == [lat |-> 0, lng |-> 0]

\* every stop list of length n with ids 1..n in input order
StopLists(n) ==
    { [p \in 1..n |-> Stop(p, xs[p], qs[p])] :
        xs \in [1..n -> Lngs], qs \in [1..n -> Demands] }

\* -------------------------------------------------------------- distance
haversineKm(a, b) == Abs(b.lng - a.lng)

\* --------------------------------------------------------------- savings
d0(c) == haversineKm(Depot, c)
dij(a, b) == haversineKm(a, b)

RECURSIVE PairsFrom(_, _, _)
PairsFrom(cs, i, j) ==
    IF i > Len(cs) THEN <<>>
    ELSE IF j > Len(cs) THEN PairsFrom(cs, i + 1, i + 2)
    ELSE <<[i |-> cs[i], j |-> cs[j],
            s |-> d0(cs[i]) + d0(cs[j]) - dij(cs[i], cs[j])]>>
         \o PairsFrom(cs, i, j + 1)

\* the savings in generation order: i outer, j > i inner
GenSavings(cs) == PairsFrom(cs, 1, 2)

\* Array.prototype.sort, which is stable.  cmp[p][q] is the comparator's
\* value on (seq[p], seq[q]): negative when seq[p] sorts before seq[q].
\* Element p lands after every element that sorts before it and after the
\* earlier elements it ties with.
StableSort(seq, cmp) ==
    LET N == Len(seq)
        Rank(p) == 1 + Cardinality({ q \in 1..N :
                         \/ cmp[q][p] < 0
                         \/ (~(cmp[p][q] < 0) /\ q < p) })
    IN [r \in 1..N |-> seq[CHOOSE p \in 1..N : Rank(p) = r]]

\* (a, b) => b.s - a.s
SavingCompare(a, b) == b.s - a.s

\* faulty variant: descending, but equal savings come out in reverse
\* generation order
SortSavingsTiesReversed(sv) ==
    Reverse(StableSort(sv, [p \in 1..Len(sv) |-> [q \in 1..Len(sv) |-> sv[p].s - sv[q].s]]))

\* line 111
SortSavings(sv) ==
    StableSort(sv, [p \in 1..Len(sv) |-> [q \in 1..Len(sv) |-> SavingCompare(sv[p], sv[q])]])

\* ---------------------------------------------------------- merge helper
InitRoutes(cs) == [p \in 1..Len(cs) |-> [customers |-> <<cs[p]>>, load |-> cs[p].demand]]

Ids(seq) == { seq[p].id : p \in 1..Len(seq) }

NotFound == [rIdx |-> 0, atStart |-> "none"]

findRouteAndPos(rs, stop) ==
    LET hits == { r \in 1..Len(rs) : stop.id \in Ids(rs[r].customers) }
    IN IF hits = {} THEN NotFound
       ELSE LET r == CHOOSE h \in hits : \A g \in hits : h <= g
                c == rs[r].customers
            IN IF c[1].id = stop.id THEN [rIdx |-> r, atStart |-> "true"]
               ELSE IF c[Len(c)].id = stop.id THEN [rIdx |-> r, atStart |-> "false"]
               ELSE [rIdx |-> r, atStart |-> "null"]

\* faulty variants of the capacity test: never refusing, and refusing one unit late
OverCapacityNever(newLoad, cap) == FALSE

OverCapacityLate(newLoad, cap) == newLoad > cap + 1

\* line 136
OverCapacity(newLoad, cap) == newLoad > cap

\* faulty variant: the load of the absorbed route is not added
NewLoadLeftOnly(ri, rj) == ri.load

\* line 135
NewLoad(ri, rj) == ri.load + rj.load

\* the guards of the merge loop body, lines 129-136
CanMerge(rs, sv, cap) ==
    LET fi == findRouteAndPos(rs, sv.i)
        fj == findRouteAndPos(rs, sv.j)
    IN /\ fi # NotFound /\ fj # NotFound
       /\ fi.rIdx # fj.rIdx
       /\ fi.atStart # "null" /\ fj.atStart # "null"
       /\ ~OverCapacity(NewLoad(rs[fi.rIdx], rs[fj.rIdx]), cap)

\* faulty variant: the reversal tests of lines 143-144 exchanged
OrientSwapped(ri, fi, rj, fj) ==
    LET left  == IF fi.atStart # "true" THEN Reverse(ri.customers) ELSE ri.customers
        right == IF fj.atStart = "true" THEN Reverse(rj.customers) ELSE rj.customers
    IN left \o right

\* lines 139-147
Orient(ri, fi, rj, fj) ==
    LET left  == IF fi.atStart = "true" THEN Reverse(ri.customers) ELSE ri.customers
        right == IF fj.atStart # "true" THEN Reverse(rj.customers) ELSE rj.customers
    IN left \o right

\* faulty variant: the splice removes the last route instead of the route of j
SpliceLast(rs, at) == [p \in 1..(Len(rs) - 1) |-> rs[p]]

\* routes.splice(at, 1)
Splice(rs, at) == [p \in 1..(Len(rs) - 1) |-> IF p < at THEN rs[p] ELSE rs[p + 1]]

MergeInto(rs, sv) ==
    LET fi == findRouteAndPos(rs, sv.i)
        fj == findRouteAndPos(rs, sv.j)
        ri == rs[fi.rIdx]
        rj == rs[fj.rIdx]
        m  == [customers |-> Orient(ri, fi, rj, fj), load |-> NewLoad(ri, rj)]
    IN Splice([rs EXCEPT ![fi.rIdx] = m], fj.rIdx)

\* ------------------------------------------------------------------ 2-opt
\* node(idx) over sequence b: the depot at -1 and at length, b[idx] inside,
\* undefined elsewhere
NodeDefined(b, idx) == idx \in (0 - 1)..Len(b)

node(b, idx) == IF idx = 0 - 1 THEN Depot
                ELSE IF idx = Len(b) THEN Depot
                ELSE b[idx + 1]

distWithDepot(b, x, y) ==
    haversineKm(node(b, x), node(b, x + 1)) + haversineKm(node(b, y), node(b, y + 1))

\* haversineKm reads .lat of an undefined node: TypeError
DistWithDepotThrows(b, x, y) ==
    ~(NodeDefined(b, x) /\ NodeDefined(b, x + 1) /\ NodeDefined(b, y) /\ NodeDefined(b, y + 1))

BeforeThrows(b, i, k) ==
    DistWithDepotThrows(b, i - 1, i) \/ DistWithDepotThrows(b, k, k + 1)

Before(b, i, k) == distWithDepot(b, i - 1, i) + distWithDepot(b, k, k + 1)

Candidate(b, i, k) ==
    Slice(b, 0, i) \o Reverse(Slice(b, i, k + 1)) \o Slice(b, k + 1, Len(b))

After(b, i, k) ==
    LET c == Candidate(b, i, k)
    IN haversineKm(node(c, i - 1), node(c, i)) + haversineKm(node(c, k), node(c, k + 1))

\* after + 1e-9 < before
Accepts(b, i, k) == After(b, i, k) < Before(b, i, k)

\* ---------------------------------------------------------------- results
\* lines 190-196: dist accumulated along the sequence, prev starting at the depot
RECURSIVE DistLoop(_, _, _)
DistLoop(seq, prev, dist) ==
    IF seq = <<>> THEN dist + haversineKm(prev, Depot)
    ELSE DistLoop(Tail(seq), seq[1], dist + haversineKm(prev, seq[1]))

RoundTrip(seq) == DistLoop(seq, Depot, 0)

MakeResult(seq, load) == [route |-> seq, distanceKm |-> RoundTrip(seq), load |-> load]

\* (a, b) => a.distanceKm - b.distanceKm
ResultCompare(a, b) == a.distanceKm - b.distanceKm

\* faulty variant: the result list is returned in map order
SortResultsNone(rs) == rs

\* line 200
SortResults(rs) ==
    StableSort(rs, [p \in 1..Len(rs) |-> [q \in 1..Len(rs) |-> ResultCompare(rs[p], rs[q])]])

\* -------------------------------------------------------------------- CSV
\* A string is a sequence of one-character strings; a number is a record
\* that is either NaN or carries an integer value.
Num(v) == [nan |-> FALSE, val |-> v]
NaN    == [nan |-> TRUE, val |-> 0]

\* the value of an array element or variable that is not there
Undefined == <<"undefined-value">>

Quote == "\""

DigitChars == <<"0", "1", "2", "3", "4", "5", "6", "7", "8", "9">>
IsDigit(c) == \E d \in 1..10 : DigitChars[d] = c
DigitVal(c) == (CHOOSE d \in 1..10 : DigitChars[d] = c) - 1

IsSpace(c) == c \in {" ", "\t", "\n", "\r"}

RECURSIVE NatToString(_)
NatToString(n) ==
    IF n < 10 THEN <<DigitChars[n + 1]>>
    ELSE NatToString(n \div 10) \o <<DigitChars[(n % 10) + 1]>>

\* String(v) of a number
NumToString(x) ==
    IF x.nan THEN <<"N", "a", "N">>
    ELSE IF x.val < 0 THEN <<"-">> \o NatToString(0 - x.val)
    ELSE NatToString(x.val)

NumericKeys == {"lat", "lng", "demand"}

\* String(v ?? "") of the field key of a row
FieldToString(row, key) ==
    IF key \in NumericKeys THEN NumToString(row[key]) ELSE row[key]

\* str.replace(/"/g, '""')
RECURSIVE DoubleQuotes(_)
DoubleQuotes(str) ==
    IF str = <<>> THEN <<>>
    ELSE (IF str[1] = Quote THEN <<Quote, Quote>> ELSE <<str[1]>>)
         \o DoubleQuotes(Tail(str))

esc(str) == <<Quote>> \o DoubleQuotes(str) \o <<Quote>>

RECURSIVE Join(_, _)
Join(strs, sep) ==
    IF strs = <<>> THEN <<>>
    ELSE IF Len(strs) = 1 THEN strs[1]
    ELSE strs[1] \o sep \o Join(Tail(strs), sep)

\* the column list exportCSV passes, lines 298-304
StopColumns ==
    << [key |-> "id",     title |-> <<"I", "D">>],
       [key |-> "name",   title |-> <<"N", "a", "m", "e">>],
       [key |-> "lat",    title |-> <<"L", "a", "t">>],
       [key |-> "lng",    title |-> <<"L", "n", "g">>],
       [key |-> "demand", title |-> <<"D", "e", "m", "a", "n", "d">>] >>

\* .filter(Boolean) on a list of strings
FilterNonEmpty(strs) == SelectSeq(strs, LAMBDA x : x # <<>>)

toCSV(rows, cols) ==
    LET header == Join([c \in 1..Len(cols) |-> cols[c].title], <<",">>)
        line(r) == Join([c \in 1..Len(cols) |-> esc(FieldToString(r, cols[c].key))], <<",">>)
        body   == Join([r \in 1..Len(rows) |-> line(rows[r])], <<"\n">>)
    IN Join(FilterNonEmpty(<<header, body>>), <<"\n">>)

\* str.split(separator) for single-character separators
RECURSIVE Split(_, _)
Split(str, seps) ==
    IF \A p \in 1..Len(str) : str[p] \notin seps THEN <<str>>
    ELSE LET p == CHOOSE q \in 1..Len(str) :
                    str[q] \in seps /\ \A o \in 1..(q - 1) : str[o] \notin seps
         IN <<SubSeq(str, 1, p - 1)>> \o Split(SubSeq(str, p + 1, Len(str)), seps)

RECURSIVE TrimStart(_)
TrimStart(str) ==
    IF str # <<>> /\ IsSpace(str[1]) THEN TrimStart(Tail(str)) ELSE str

Trim(str) == Reverse(TrimStart(Reverse(TrimStart(str))))

LowerChar(c) ==
    CASE c = "I" -> "i" [] c = "D" -> "d" [] c = "N" -> "n" [] c = "L" -> "l"
      [] c = "A" -> "a" [] c = "B" -> "b" [] c = "C" -> "c" [] OTHER -> c

toLowerCase(str) == [p \in 1..Len(str) |-> LowerChar(str[p])]

\* the leading run of digits of str
RECURSIVE DigitPrefix(_)
DigitPrefix(str) ==
    IF str # <<>> /\ IsDigit(str[1]) THEN <<str[1]>> \o DigitPrefix(Tail(str)) ELSE <<>>

RECURSIVE DigitsValue(_, _)
DigitsValue(ds, acc) ==
    IF ds = <<>> THEN acc ELSE DigitsValue(Tail(ds), 10 * acc + DigitVal(ds[1]))

\* parseFloat on integer literals: leading white space, an optional sign,
\* the longest run of digits; NaN when there is no digit
parseFloat(str) ==
    IF str = Undefined THEN NaN
    ELSE LET t    == TrimStart(str)
             neg  == t # <<>> /\ t[1] = "-"
             body == IF t # <<>> /\ t[1] \in {"-", "+"} THEN Tail(t) ELSE t
             ds   == DigitPrefix(body)
         IN IF ds = <<>> THEN NaN
            ELSE Num(IF neg THEN 0 - DigitsValue(ds, 0) ELSE DigitsValue(ds, 0))

\* Number(str) on integer literals: the whole trimmed string must be a
\* literal, the empty string is 0
ToNumber(str) ==
    IF str = Undefined THEN NaN
    ELSE LET t    == Trim(str)
             neg  == t # <<>> /\ t[1] = "-"
             body == IF t # <<>> /\ t[1] \in {"-", "+"} THEN Tail(t) ELSE t
             ds   == DigitPrefix(body)
         IN IF t = <<>> THEN Num(0)
            ELSE IF ds = <<>> \/ ds # body THEN NaN
            ELSE Num(IF neg THEN 0 - DigitsValue(ds, 0) ELSE DigitsValue(ds, 0))

\* String.fromCharCode(65 + i)
Letters == <<"A", "B", "C", "D", "E", "F", "G", "H">>
LetterId(i) == <<Letters[i + 1]>>

\* cols.findIndex((c) => c === k), 0-based, -1 when absent
FindIndex(cols, k) ==
    IF \E p \in 1..Len(cols) : cols[p] = k
    THEN (CHOOSE p \in 1..Len(cols) : cols[p] = k /\ \A o \in 1..(p - 1) : cols[o] # k) - 1
    ELSE 0 - 1

\* parts[at] with a 0-based index
ElementAt(parts, at) == IF at \in 0..(Len(parts) - 1) THEN parts[at + 1] ELSE Undefined

Falsy(str) == str = Undefined \/ str = <<>>

\* lines 337-347: the Stop parsed from data line number i (0-based)
ParseLine(line, i, idIdx, nameIdx, latIdx, lngIdx, demIdx) ==
    LET parts == Split(line, {",", "\t"})
        id    == IF idIdx >= 0 THEN ElementAt(parts, idIdx) ELSE LetterId(i)
        nm    == ElementAt(parts, nameIdx)
    IN [ id     |-> IF Falsy(id) THEN LetterId(i) ELSE id,
         name   |-> IF Falsy(nm)
                    THEN <<"S", "t", "o", "p", " ">>
                         \o (IF Falsy(id) THEN NatToString(i + 1) ELSE id)
                    ELSE nm,
         lat    |-> parseFloat(ElementAt(parts, latIdx)),
         lng    |-> parseFloat(ElementAt(parts, lngIdx)),
         demand |-> IF demIdx >= 0 THEN ToNumber(ElementAt(parts, demIdx)) ELSE Num(1) ]

\* lines 328-348: the stop list importCSV passes to setStops
ImportedStops(text) ==
    LET lines   == FilterNonEmpty(Split(text, {"\n"}))
        header  == lines[1]
        rest    == Tail(lines)
        hs      == Split(header, {",", "\t"})
        cols    == [c \in 1..Len(hs) |-> toLowerCase(Trim(hs[c]))]
        parsed  == [r \in 1..Len(rest) |->
                      ParseLine(rest[r], r - 1,
                                FindIndex(cols, <<"i", "d">>),
                                FindIndex(cols, <<"n", "a", "m", "e">>),
                                FindIndex(cols, <<"l", "a", "t">>),
                                FindIndex(cols, <<"l", "n", "g">>),
                                FindIndex(cols, <<"d", "e", "m", "a", "n", "d">>))]
    IN SelectSeq(parsed, LAMBDA st : ~st.lat.nan /\ ~st.lng.nan)

\* header is undefined when the text has no non-empty line: TypeError
ImportThrows(text) == FilterNonEmpty(Split(text, {"\n"})) = <<>>

CsvNames == { <<"A">>, <<"R", "a", "w", " ", "1">>, <<"x", ",", Quote>> }
CsvCoords == (0 - 1)..CsvMaxCoord
CsvDemands == 0..CsvMaxDemand

\* stop lists as addStop builds them: the id of the stop at position p is
\* the letter of p
CsvStopLists(n) ==
    { [p \in 1..n |-> [id |-> LetterId(p - 1), name |-> nm[p], lat |-> Num(la[p]),
                       lng |-> Num(lo[p]), demand |-> Num(dm[p])]] :
        nm \in [1..n -> CsvNames], la \in [1..n -> CsvCoords],
        lo \in [1..n -> CsvCoords], dm \in [1..n -> CsvDemands] }

\* ------------------------------------------------------------------- Init
SolveInit ==
    /\ depot = Depot
    /\ \E n \in 0..MaxStops : customers \in StopLists(n)
    /\ capacity \in Capacities
    /\ pc = "start"
    /\ routes = <<>>
    /\ savings = <<>>
    /\ sIdx = 0
    /\ rIdx = 0
    /\ best = <<>>
    /\ improved = FALSE
    /\ ti = 0
    /\ tk = 0
    /\ results = <<>>

CsvIdle ==
    /\ csvPc = "idle"
    /\ csvStops = <<>>
    /\ csvData = <<>>
    /\ csvText = <<>>

Init == SolveInit /\ CsvIdle

\* ---------------------------------------------------------------- actions
\* line 80
ReturnEmpty ==
    /\ pc = "start"
    /\ Len(customers) = 0
    /\ pc' = "done"
    /\ results' = <<>>
    /\ UNCHANGED <<depot, customers, capacity, routes, savings, sIdx, rIdx,
                   best, improved, ti, tk>>
    /\ UNCHANGED csvVars

\* lines 82-111
Initialize ==
    /\ pc = "start"
    /\ Len(customers) # 0
    /\ routes' = InitRoutes(customers)
    /\ savings' = SortSavings(GenSavings(customers))
    /\ sIdx' = 1
    /\ pc' = "merge"
    /\ UNCHANGED <<depot, customers, capacity, rIdx, best, improved, ti, tk, results>>
    /\ UNCHANGED csvVars

\* lines 126-136: an iteration that hits a continue
MergeSkip ==
    /\ pc = "merge"
    /\ sIdx <= Len(savings)
    /\ ~CanMerge(routes, savings[sIdx], capacity)
    /\ sIdx' = sIdx + 1
    /\ UNCHANGED <<depot, customers, capacity, pc, routes, savings, rIdx,
                   best, improved, ti, tk, results>>
    /\ UNCHANGED csvVars

\* lines 126-153: an iteration that merges
MergeRoutes ==
    /\ pc = "merge"
    /\ sIdx <= Len(savings)
    /\ CanMerge(routes, savings[sIdx], capacity)
    /\ routes' = MergeInto(routes, savings[sIdx])
    /\ sIdx' = sIdx + 1
    /\ UNCHANGED <<depot, customers, capacity, pc, savings, rIdx,
                   best, improved, ti, tk, results>>
    /\ UNCHANGED csvVars

\* the for-of loop over savings ends; routes.map starts
MergeDone ==
    /\ pc = "merge"
    /\ sIdx > Len(savings)
    /\ pc' = "map"
    /\ rIdx' = 1
    /\ UNCHANGED <<depot, customers, capacity, routes, savings, sIdx,
                   best, improved, ti, tk, results>>
    /\ UNCHANGED csvVars

\* lines 187-198 with twoOpt returning at line 157
MapShortRoute ==
    /\ pc = "map"
    /\ rIdx <= Len(routes)
    /\ Len(routes[rIdx].customers) < 4
    /\ results' = Append(results, MakeResult(routes[rIdx].customers, routes[rIdx].load))
    /\ rIdx' = rIdx + 1
    /\ UNCHANGED <<depot, customers, capacity, pc, routes, savings, sIdx,
                   best, improved, ti, tk>>
    /\ UNCHANGED csvVars

\* lines 158-170: twoOpt on a route of 4 or more stops enters its first pass
TwoOptEnter ==
    /\ pc = "map"
    /\ rIdx <= Len(routes)
    /\ Len(routes[rIdx].customers) >= 4
    /\ best' = routes[rIdx].customers
    /\ improved' = FALSE
    /\ ti' = 0
    /\ tk' = 1
    /\ pc' = "pair"
    /\ UNCHANGED <<depot, customers, capacity, routes, savings, sIdx, rIdx, results>>
    /\ UNCHANGED csvVars

\* lines 171-184 and 189-197: the body of the inner loop for the pair
\* (ti, tk), then the loop control that follows it
TwoOptPair ==
    /\ pc = "pair"
    /\ IF BeforeThrows(best, ti, tk)
       THEN /\ pc' = "threw"
            /\ UNCHANGED <<best, improved, ti, tk, rIdx, results>>
       ELSE LET acc  == Accepts(best, ti, tk)
                nb   == IF acc THEN Candidate(best, ti, tk) ELSE best
                nimp == improved \/ acc
            IN /\ best' = nb
               /\ IF tk + 1 < Len(nb)
                  THEN /\ tk' = tk + 1
                       /\ improved' = nimp
                       /\ UNCHANGED <<ti, pc, rIdx, results>>
                  ELSE IF ti + 1 < Len(nb) - 1
                  THEN /\ ti' = ti + 1
                       /\ tk' = ti + 2
                       /\ improved' = nimp
                       /\ UNCHANGED <<pc, rIdx, results>>
                  ELSE IF nimp
                  THEN /\ improved' = FALSE
                       /\ ti' = 0
                       /\ tk' = 1
                       /\ UNCHANGED <<pc, rIdx, results>>
                  ELSE /\ improved' = FALSE
                       /\ results' = Append(results, MakeResult(nb, routes[rIdx].load))
                       /\ rIdx' = rIdx + 1
                       /\ pc' = "map"
                       /\ UNCHANGED <<ti, tk>>
    /\ UNCHANGED <<depot, customers, capacity, routes, savings, sIdx>>
    /\ UNCHANGED csvVars

\* line 200
ReturnSorted ==
    /\ pc = "map"
    /\ rIdx > Len(routes)
    /\ results' = SortResults(results)
    /\ pc' = "done"
    /\ UNCHANGED <<depot, customers, capacity, routes, savings, sIdx, rIdx,
                   best, improved, ti, tk>>
    /\ UNCHANGED csvVars

Next ==
    \/ ReturnEmpty
    \/ Initialize
    \/ MergeSkip
    \/ MergeRoutes
    \/ MergeDone
    \/ MapShortRoute
    \/ TwoOptEnter
    \/ TwoOptPair
    \/ ReturnSorted

Spec == Init /\ [][Next]_vars

\* --------------------------------------------------- CSV export / import
SolveIdle ==
    /\ depot = Depot
    /\ customers = <<>>
    /\ capacity = 1
    /\ pc = "idle"
    /\ routes = <<>>
    /\ savings = <<>>
    /\ sIdx = 0
    /\ rIdx = 0
    /\ best = <<>>
    /\ improved = FALSE
    /\ ti = 0
    /\ tk = 0
    /\ results = <<>>

CsvInit ==
    /\ SolveIdle
    /\ csvPc = "idle"
    /\ \E n \in 0..CsvMaxStops : csvStops \in CsvStopLists(n)
    /\ csvData = <<>>
    /\ csvText = <<>>

\* lines 297-308
exportCSV ==
    /\ csvPc = "idle"
    /\ csvData' = csvStops
    /\ csvText' = toCSV(csvStops, StopColumns)
    /\ csvPc' = "exported"
    /\ UNCHANGED csvStops
    /\ UNCHANGED solveVars

\* lines 326-349, on the exported text
importCSV ==
    /\ csvPc = "exported"
    /\ IF ImportThrows(csvText)
       THEN csvPc' = "threw" /\ UNCHANGED csvStops
       ELSE csvPc' = "imported" /\ csvStops' = ImportedStops(csvText)
    /\ UNCHANGED <<csvData, csvText>>
    /\ UNCHANGED solveVars

CsvNext ==
    \/ exportCSV
    \/ importCSV

SpecCSV == CsvInit /\ [][CsvNext]_vars

\* ======================================================================
\* Properties
\* ======================================================================
Returned == pc = "done"

Working == pc \in {"merge", "map", "pair", "threw"}

\* the stop sequences of a list of working routes / of route results
RouteSeqs == [p \in 1..Len(routes) |-> routes[p].customers]
ResultSeqs == [p \in 1..Len(results) |-> results[p].route]

RECURSIVE Flatten(_)
Flatten(ss) == IF ss = <<>> THEN <<>> ELSE ss[1] \o Flatten(Tail(ss))

\* every input stop appears exactly once across the sequences ss
IsPartition(ss) ==
    LET all == Flatten(ss)
    IN /\ Len(all) = Len(customers)
       /\ \A c \in 1..Len(customers) :
            Cardinality({ p \in 1..Len(all) : all[p] = customers[c] }) = 1

DemandOf(seq) == SumSeq([p \in 1..Len(seq) |-> seq[p].demand])

\* round trip depot -> first -> ... -> last -> depot, leg by leg
TripLength(seq) ==
    IF seq = <<>> THEN 0
    ELSE Abs(seq[1].lng - depot.lng)
         + SumSeq([p \in 1..(Len(seq) - 1) |-> Abs(seq[p + 1].lng - seq[p].lng)])
         + Abs(depot.lng - seq[Len(seq)].lng)

\* ---------------------------------------------------------------- C1
\* C1: clarkeWright never enters an exceptional state: no run reaches the
\* TypeError of a distance taken from an undefined node.
C1_NoExceptionalState == pc # "threw"

\* ---------------------------------------------------------------- C2
\* C2: the stop ids across the returned routes are exactly the input stops,
\* each once; the working routes are such a partition after every merge and
\* the sequence twoOpt holds is a rearrangement of the route it was given.
C2_Partition ==
    /\ Returned => IsPartition(ResultSeqs)
    /\ Working => IsPartition(RouteSeqs)
    /\ pc = "pair" =>
          /\ Len(best) = Len(routes[rIdx].customers)
          /\ Ids(best) = Ids(routes[rIdx].customers)

C2_Witness ==
    /\ Returned
    /\ \E p \in 1..Len(results) : Len(results[p].route) = 3
    /\ Len(results) >= 2

\* ---------------------------------------------------------------- C3
\* C3: a route formed by a merge has load <= capacity; a singleton route
\* exceeds capacity only if its stop's own demand does; when no demand
\* exceeds capacity no route does.
BoundedRoute(seq, load) ==
    /\ Len(seq) >= 2 => load <= capacity
    /\ (Len(seq) = 1 /\ load > capacity) => seq[1].demand > capacity
    /\ (\A c \in 1..Len(customers) : customers[c].demand <= capacity) => load <= capacity

C3_CapacityBound ==
    /\ Returned => \A p \in 1..Len(results) : BoundedRoute(results[p].route, results[p].load)
    /\ Working => \A p \in 1..Len(routes) : BoundedRoute(routes[p].customers, routes[p].load)

C3_Witness ==
    /\ Returned
    /\ \E p \in 1..Len(results) : Len(results[p].route) >= 2 /\ results[p].load = capacity
    /\ \E p \in 1..Len(results) : Len(results[p].route) = 1 /\ results[p].load > capacity

\* ---------------------------------------------------------------- C4
\* C4: every swap twoOpt accepts strictly decreases the round trip
\* depot -> stops -> depot of the sequence it holds.
C4_SwapDecreases ==
    [][(pc = "pair" /\ pc' = "pair" /\ best' # best)
         => TripLength(best') < TripLength(best)]_vars

\* ---------------------------------------------------------------- C5
\* C5: the load of every route equals the sum of the demands of its stops,
\* and the loads of all routes sum to the demands of all input stops.
C5_LoadConservation ==
    /\ Returned =>
          /\ \A p \in 1..Len(results) : results[p].load = DemandOf(results[p].route)
          /\ SumSeq([p \in 1..Len(results) |-> results[p].load]) = DemandOf(customers)
    /\ Working =>
          /\ \A p \in 1..Len(routes) : routes[p].load = DemandOf(routes[p].customers)
          /\ SumSeq([p \in 1..Len(routes) |-> routes[p].load]) = DemandOf(customers)

C5_Witness ==
    /\ Returned
    /\ \E p \in 1..Len(results) :
          /\ Len(results[p].route) = 3
          /\ \A q \in 1..3 : results[p].route[q].demand > 0

\* ---------------------------------------------------------------- C7
\* C7: importing the text exported from a stop list yields a list of the
\* same number of stops with the same id, name, demand, lat and lng.
C7_CsvRoundTrip ==
    csvPc = "imported" =>
        /\ Len(csvStops) = Len(csvData)
        /\ \A p \in 1..Len(csvStops) :
              /\ p <= Len(csvData)
              /\ csvStops[p].id = csvData[p].id
              /\ csvStops[p].name = csvData[p].name
              /\ csvStops[p].demand = csvData[p].demand
              /\ csvStops[p].lat = csvData[p].lat
              /\ csvStops[p].lng = csvData[p].lng

\* ---------------------------------------------------------------- C8
\* C8: the returned list is in non-decreasing order of distanceKm, and each
\* distanceKm is the round trip of the stop order emitted for that route.
C8_SortedByDistance ==
    Returned =>
        /\ \A p \in 1..Len(results) : results[p].distanceKm = TripLength(results[p].route)
        /\ \A p, q \in 1..Len(results) :
              p < q => results[p].distanceKm <= results[q].distanceKm

\* the sort moved a route: the shortest route was not the first one mapped
C8_Witness ==
    /\ Returned
    /\ Len(results) >= 2
    /\ results[1].distanceKm < results[Len(results)].distanceKm
    /\ routes[1].customers # results[1].route
    /\ \E p \in 1..Len(results) : Len(results[p].route) >= 2

\* ---------------------------------------------------------------- C9
\* C9: with at least two stops, every demand <= capacity and total demand
\* > capacity, at least two routes remain after merging and are returned.
SplitForced ==
    /\ Len(customers) >= 2
    /\ \A c \in 1..Len(customers) : customers[c].demand <= capacity
    /\ DemandOf(customers) > capacity

C9_CapacityForcesSplit ==
    /\ (Returned /\ SplitForced) => Len(results) >= 2
    /\ (pc \in {"map", "pair", "threw"} /\ SplitForced) => Len(routes) >= 2

C9_Witness ==
    /\ Returned
    /\ SplitForced
    /\ Len(results) = 2
    /\ Len(customers) = 3
    /\ \A c \in 1..3 : customers[c].demand = 1

\* --------------------------------------------------------------- C10
\* C10: a saving (i, j) merges only two different routes that have i and j
\* at an end; the merged sequence is the route of i followed by the route
\* of j, each as it was or reversed, with i immediately before j; it takes
\* the place of the route of i and the route of j leaves the list.
IsEnd(seq, stop) == seq[1] = stop \/ seq[Len(seq)] = stop

Orientations(seq) == {seq, Reverse(seq)}

C10_MergeTopology ==
    [][(pc = "merge" /\ routes' # routes) =>
        LET sv == savings[sIdx]
        IN \E a, b \in 1..Len(routes) :
             /\ a # b
             /\ IsEnd(routes[a].customers, sv.i)
             /\ IsEnd(routes[b].customers, sv.j)
             /\ \E L \in Orientations(routes[a].customers),
                    R \in Orientations(routes[b].customers) :
                  /\ L[Len(L)] = sv.i
                  /\ R[1] = sv.j
                  /\ Len(routes') = Len(routes) - 1
                  /\ \A p \in 1..Len(routes') :
                        LET old == IF p < b THEN p ELSE p + 1
                        IN routes'[p].customers =
                             IF old = a THEN L \o R ELSE routes[old].customers
       ]_vars

\* the last saving visited joined a route of two or more stops, entered at
\* its first stop, to another route
C10_Witness ==
    /\ pc = "merge"
    /\ sIdx > 1
    /\ \E r \in 1..Len(routes) :
          LET c == routes[r].customers
          IN /\ Len(c) >= 4
             /\ \E p \in 2..(Len(c) - 2) :
                   /\ c[p] = savings[sIdx - 1].i
                   /\ c[p + 1] = savings[sIdx - 1].j

\* --------------------------------------------------------------- C11
\* C11: for the pair (i, k) twoOpt adopts the candidate exactly when
\* after < before (beyond the tolerance), where before is the length of the
\* two edges (i-1, i) and (k, k+1) of the current sequence and after the
\* length of the same two edges of the candidate, the depot standing at
\* positions -1 and length; no other edge enters the comparison.
EdgeAt(seq, p) ==
    LET from == IF p = 0 - 1 THEN depot ELSE seq[p + 1]
        to   == IF p + 1 = Len(seq) THEN depot ELSE seq[p + 2]
    IN Abs(to.lng - from.lng)

TwoEdges(seq, i, k) == EdgeAt(seq, i - 1) + EdgeAt(seq, k)

ReversedBetween(seq, i, k) ==
    [p \in 1..Len(seq) |-> IF p - 1 >= i /\ p - 1 <= k THEN seq[i + k + 2 - p] ELSE seq[p]]

TwoEdgeTest(seq, i, k) == TwoEdges(ReversedBetween(seq, i, k), i, k) < TwoEdges(seq, i, k)

C11_AcceptanceTest ==
    [][(pc = "pair" /\ pc' = "pair")
         => /\ (best' # best) <=> TwoEdgeTest(best, ti, tk)
            /\ best' \in {best, ReversedBetween(best, ti, tk)}]_vars

\* --------------------------------------------------------------- C12
\* C12: the saving list holds every pair (i, j), i before j in the input
\* list, once, with s = d0[i] + d0[j] - dij[i,j]; it is in non-increasing
\* order of s and pairs of equal s stand in generation order (i outer,
\* j inner); the merge loop visits it front to back, one saving per
\* iteration, and the list is never changed or visited again.
GeneratedEarlier(x, y) ==
    \/ x.i.id < y.i.id
    \/ (x.i.id = y.i.id /\ x.j.id < y.j.id)

SavingOf(a, b) ==
    Abs(a.lng - depot.lng) + Abs(b.lng - depot.lng) - Abs(a.lng - b.lng)

SavingsComplete ==
    /\ 2 * Len(savings) = Len(customers) * (Len(customers) - 1)
    /\ \A a, b \in 1..Len(customers) :
          a < b => \E p \in 1..Len(savings) :
                     savings[p] = [i |-> customers[a], j |-> customers[b],
                                   s |-> SavingOf(customers[a], customers[b])]

SavingsOrdered ==
    \A p, q \in 1..Len(savings) :
        p < q => \/ savings[p].s > savings[q].s
                 \/ (savings[p].s = savings[q].s /\ GeneratedEarlier(savings[p], savings[q]))

C12_SavingsOrder ==
    /\ [](pc \in {"merge", "map", "pair", "threw"} => (SavingsComplete /\ SavingsOrdered))
    /\ [][(pc = "merge") =>
             /\ savings' = savings
             /\ \/ (sIdx <= Len(savings) /\ sIdx' = sIdx + 1 /\ pc' = "merge")
                \/ (sIdx = Len(savings) + 1 /\ sIdx' = sIdx /\ pc' = "map")]_vars
    /\ [][(pc \in {"map", "pair"}) => (savings' = savings /\ sIdx' = sIdx /\ pc' # "merge")]_vars

\* the loop has visited every saving of a list that the sort reordered and
\* in which two pairs tie
C12_Witness ==
    /\ pc = "merge"
    /\ sIdx = Len(savings) + 1
    /\ Len(savings) >= 3
    /\ \E p, q \in 1..Len(savings) :
          p < q /\ savings[p].s = savings[q].s /\ savings[p].s > 0
    /\ \E p, q \in 1..Len(savings) :
          p < q /\ GeneratedEarlier(savings[q], savings[p])

\* --------------------------------------------------------------- C13
\* C13: twoOpt returns, for a route of any length, a sequence on which no
\* pair (i, k), 0 <= i < k < length, passes the acceptance test, so a
\* second run on that sequence changes nothing: every returned route is
\* such a fixed point, and every step of twoOpt on a route of 4 or more
\* stops either goes on with the pass or returns such a sequence.
NoPairPasses(seq) ==
    \A i, k \in 0..(Len(seq) - 1) : i < k => ~TwoEdgeTest(seq, i, k)

C13_TwoOptFixedPoint ==
    /\ [](Returned => \A p \in 1..Len(results) : NoPairPasses(results[p].route))
    /\ [][(pc = "pair") =>
             \/ pc' = "pair"
             \/ (pc' = "map" /\ NoPairPasses(results'[Len(results')].route))]_vars
====
